---- MODULE Spec2Model ----
(***************************************************************************)
(* The `run` command of the intersection bot (src/src/main.rs): one        *)
(* message is received in a guild, its DRQL chunks are folded into one     *)
(* AST, the AST is walked and reduced to a set of user ids, the set is     *)
(* covered by roles of the guild plus outliers, and one reply is sent.     *)
(* The handler keeps no state between messages, so one behaviour of the    *)
(* model is the handling of one message.                                   *)
(***************************************************************************)
EXTENDS Integers, Sequences, FiniteSets, TLC

VARIABLES
    discord_guild,    \* the cached Guild the message was sent in
    msg,              \* the message: parsed chunks and the invoker's permission
    pc,               \* "received" | "done"
    walked,           \* result of walk_and_reduce_ast on the folded AST
    members_to_ping,  \* handle_command's local of that name
    qualifiers,       \* keys of handle_command's `qualifiers`
    new_qualifiers,   \* keys of handle_command's `new_qualifiers`
    outliers,         \* handle_command's local of that name
    replies           \* every msg.reply made, in order

vars == <<discord_guild, msg, pc, walked, members_to_ping, qualifiers,
          new_qualifiers, outliers, replies>>

(***************************************************************************)
(* Bounds of the model.                                                    *)
(***************************************************************************)
\* individual users have ids 1..MaxUsers; each may or may not be a member
MaxUsers == 2
\* a block of members that join together, large enough for a big audience
CrowdSize == 51
\* most chunks in one message
MaxChunks == 2

GuildId == 50
UserIds == 1..MaxUsers
CrowdIds == 101..(100 + CrowdSize)
RoleIds == {10, 11}
\* an id that is neither a member nor a role of any guild of the model
StrangerId == 99

(***************************************************************************)
(* Strings the code inspects character by character are tuples of          *)
(* one-character strings.                                                  *)
(***************************************************************************)
s_everyone == <<"e", "v", "e", "r", "y", "o", "n", "e">>
s_here == <<"h", "e", "r", "e">>
s_QA == <<"Q", "A">>
s_qa == <<"q", "a">>
s_dev == <<"d", "e", "v">>
s_Al == <<"A", "l", "#", "1">>
s_al == <<"a", "l", "#", "1">>
s_Bo == <<"B", "o", "#", "2">>
s_zz == <<"z", "z">>

\* char::to_lowercase on the characters the model's names are made of
LowerChar(c) ==
    CASE c = "A" -> "a"
      [] c = "B" -> "b"
      [] c = "Q" -> "q"
      [] OTHER -> c

\* str::to_lowercase
to_lowercase(s) == [i \in 1..Len(s) |-> LowerChar(s[i])]

(***************************************************************************)
(* The guild (serenity's cached Guild).  members: the ids of               *)
(* guild.members; member_roles[u]: member.roles; online: the members whose *)
(* presence exists with a status other than Offline; tag[u]:               *)
(* member.user.tag(); roles[r]: guild.roles, with name and mentionable.    *)
(* The author of the message is user 1, who is always a member.            *)
(***************************************************************************)
AuthorId == 1

TagChoices(u) ==
    IF u = 1 THEN {s_Al}
    ELSE IF u = 2 THEN {s_al, s_Bo}
    ELSE {<<"u", "#", ToString(u)>>}

NameChoices(r) ==
    IF r = 10 THEN {s_QA, s_dev}
    ELSE IF r = 11 THEN {s_qa, s_al}
    ELSE {<<"r", ToString(r)>>}

\* the sets of individual users that may be the members besides the crowd
Individuals == {m \in SUBSET UserIds : AuthorId \in m}

\* the crowd: absent, or present with one presence and one role set for all
NoCrowd == [ids |-> {}, online |-> FALSE, roles |-> {}]
CrowdChoices ==
    {[ids |-> CrowdIds, online |-> TRUE, roles |-> {}],
     [ids |-> CrowdIds, online |-> FALSE, roles |-> {10}]}

Guild(ind, mr, on, tg, crowd, rl) ==
    [id |-> GuildId,
     members |-> ind \cup crowd.ids,
     member_roles |-> [u \in ind \cup crowd.ids |->
                          IF u \in ind THEN mr[u] ELSE crowd.roles],
     online |-> on \cup (IF crowd.online THEN crowd.ids ELSE {}),
     tag |-> [u \in ind \cup crowd.ids |->
                 IF u \in ind THEN tg[u] ELSE <<"c", "#", ToString(u)>>],
     roles |-> rl]

FirstTags == [u \in UserIds |-> CHOOSE t \in TagChoices(u) : t = s_Al \/ t = s_Bo \/ u > 2]
PlainRoles == [r \in RoleIds |->
                  [name |-> IF r = 10 THEN s_QA ELSE s_al, mentionable |-> TRUE]]

\* guilds that differ in who is a member, who is online and who has which
\* role; names and mentionable flags are fixed
MembershipGuilds ==
    UNION {
        {Guild(ind, mr, on, [u \in ind |-> FirstTags[u]], NoCrowd, PlainRoles) :
            mr \in [ind -> SUBSET RoleIds], on \in SUBSET ind}
        : ind \in Individuals}

\* large guilds: the author, with or without role 10, and the crowd
CrowdGuilds ==
    {Guild({AuthorId}, [u \in {AuthorId} |-> rs], {AuthorId},
           [u \in {AuthorId} |-> FirstTags[u]], crowd, PlainRoles) :
        rs \in {{}, {10}}, crowd \in CrowdChoices}

\* guilds that differ in the names of roles and members and in the
\* mentionable flags; user 1 has role 10, any other member has role 11, and
\* user 1 alone is online
NamingGuilds ==
    UNION {
        {Guild(ind, [u \in ind |-> IF u = 1 THEN {10} ELSE {11}], {AuthorId},
               tg, NoCrowd, rl) :
            tg \in {f \in [ind -> UNION {TagChoices(u) : u \in ind}] :
                        \A u \in ind : f[u] \in TagChoices(u)},
            rl \in {f \in [RoleIds -> [name : UNION {NameChoices(r) : r \in RoleIds},
                                       mentionable : BOOLEAN]] :
                        \A r \in RoleIds : f[r].name \in NameChoices(r)}}
        : ind \in Individuals}

Guilds == MembershipGuilds \cup CrowdGuilds \cup NamingGuilds

(***************************************************************************)
(* drql::ast::Expr.  A node is a tuple headed by the variant's name.       *)
(* UserID and RoleID carry a u64; UnknownID carries the digits as a        *)
(* String; StringLiteral carries the name.                                 *)
(***************************************************************************)
\* a digit string too long for a u64
s_overflow == "99999999999999999999"

KnownIds == UserIds \cup RoleIds \cup {GuildId, StrangerId}

Leaves ==
    {<<"UserID", u>> : u \in UserIds \cup {StrangerId}}
        \cup {<<"RoleID", r>> : r \in RoleIds \cup {GuildId, StrangerId}}
        \cup {<<"UnknownID", ToString(n)>> : n \in KnownIds}
        \cup {<<"UnknownID", s_overflow>>}
        \cup {<<"StringLiteral", s>> : s \in {s_everyone, s_here, <<"Q", "a">>, s_al, s_zz}}

\* the leaves used as operands of the binary nodes of the model
Operands ==
    {<<"UserID", u>> : u \in (UserIds \ {AuthorId}) \cup {StrangerId}}
        \cup {<<"RoleID", r>> : r \in RoleIds}
        \cup {<<"StringLiteral", s>> : s \in {s_everyone, s_here}}

Exprs ==
    Leaves \cup {<<op, l, r>> : op \in {"Union", "Intersection", "Difference"},
                               l \in Operands, r \in Operands}

\* the outcome of drql::parser::parse_drql on a chunk that does not parse
ParseFailure == <<"ParseError">>

\* the chunks of the messages that have several
SmallChunks == {<<"UserID", StrangerId>>, <<"RoleID", 10>>, ParseFailure}

\* the parsed chunks of a message: none, one chunk of any shape, or several
ChunkLists ==
    {<<>>} \cup {<<e>> : e \in Exprs \cup {ParseFailure}}
        \cup UNION {[1..n -> SmallChunks] : n \in 2..MaxChunks}

Messages == [chunks : ChunkLists, mention_everyone : BOOLEAN]

(***************************************************************************)
(* The helper traits of main.rs.                                           *)
(***************************************************************************)
\* CustomGuildImpl::get_everyone
get_everyone(guild) == guild.members

\* CustomGuildImpl::get_here
get_here(guild) == {id \in get_everyone(guild) : id \in guild.online}

\* CustomRoleImpl::members
members(guild, role_id) == {u \in guild.members : role_id \in guild.member_roles[u]}

\* can_mention_role with && in place of ||
can_mention_role_both(mention_everyone, role) == role.mentionable /\ mention_everyone

\* CustomMemberImpl::can_mention_role, for the author of the message
can_mention_role(mention_everyone, role) == role.mentionable \/ mention_everyone

\* str::parse::<u64>: the number a digit string denotes, or -1 when it fails
ParseU64(s) ==
    IF \E n \in KnownIds \cup CrowdIds : ToString(n) = s
    THEN CHOOSE n \in KnownIds \cup CrowdIds : ToString(n) = s
    ELSE -1

(***************************************************************************)
(* Results of walk_and_reduce_ast: Ok(set) or Err(anyhow error).  An error *)
(* is the kind of the bail!/anyhow! that made it, with its argument.       *)
(***************************************************************************)
NoError == <<"none">>
Ok(set) == [ok |-> TRUE, set |-> set, err |-> NoError]
Err(kind, arg) == [ok |-> FALSE, set |-> {}, err |-> <<kind, arg>>]

\* the first element of a Vec collected from guild.roles, whose iteration
\* order is `order`, after filtering by `matches`
First(order, matches) ==
    order[CHOOSE i \in 1..Len(order) :
              /\ order[i] \in matches
              /\ \A j \in 1..(i - 1) : order[j] \notin matches]

\* the orders in which guild.roles (a HashMap) may be iterated
IterationOrders(guild) ==
    {o \in [1..Cardinality(DOMAIN guild.roles) -> DOMAIN guild.roles] :
        \A i, j \in DOMAIN o : i # j => o[i] # o[j]}

(***************************************************************************)
(* walk_and_reduce_ast, one operator per arm of its match.  An arm that    *)
(* calls walk_and_reduce_ast on a leaf it builds uses that leaf's arm.     *)
(***************************************************************************)
\* main.rs:265  Expr::UserID
walk_UserID(id) == Ok({id})

\* walk_Reserved without the permission test
walk_Reserved_ungated(guild, mention_everyone, s) ==
    IF s = s_everyone THEN Ok(get_everyone(guild)) ELSE Ok(get_here(guild))

\* main.rs:313-322  Expr::StringLiteral, `everyone` and `here`
walk_Reserved(guild, mention_everyone, s) ==
    IF ~mention_everyone
    THEN Err("PermissionDenied", s)
    ELSE IF s = s_everyone THEN Ok(get_everyone(guild))
         ELSE Ok(get_here(guild))

\* walk_RoleID with the can_mention_role test of the UnknownID arm
walk_RoleID_gated(guild, mention_everyone, id) ==
    IF ToString(id) = ToString(guild.id)
    THEN walk_Reserved(guild, mention_everyone, s_everyone)
    ELSE IF id \notin DOMAIN guild.roles
         THEN Err("UnresolvedRole", id)
         ELSE IF ~can_mention_role(mention_everyone, guild.roles[id])
              THEN Err("Unmentionable", guild.roles[id].name)
              ELSE Ok(members(guild, id))

\* main.rs:266-278  Expr::RoleID
walk_RoleID(guild, mention_everyone, id) ==
    IF ToString(id) = ToString(guild.id)
    THEN walk_Reserved(guild, mention_everyone, s_everyone)
    ELSE IF id \notin DOMAIN guild.roles
         THEN Err("UnresolvedRole", id)
         ELSE Ok(members(guild, id))

\* main.rs:279-311  Expr::UnknownID
walk_UnknownID(guild, mention_everyone, digits) ==
    IF digits = ToString(guild.id)
    THEN walk_Reserved(guild, mention_everyone, s_everyone)
    ELSE
      LET id == ParseU64(digits)
          possible_member == id \in guild.members
          possible_role == id \in DOMAIN guild.roles
      IN
      IF id = -1 THEN Err("ParseInt", digits)
      ELSE IF possible_member /\ possible_role
           THEN Err("AmbiguousId", digits)
      ELSE IF possible_member
           THEN walk_UserID(id)
      ELSE IF possible_role
                /\ ~can_mention_role(mention_everyone, guild.roles[id])
           THEN Err("Unmentionable", guild.roles[id].name)
      ELSE IF possible_role
           THEN walk_RoleID(guild, mention_everyone, id)
      ELSE Err("UnresolvedId", digits)

\* main.rs:324-335: the members and the roles a name matches
possible_members(guild, s) ==
    {u \in guild.members : to_lowercase(guild.tag[u]) = to_lowercase(s)}

possible_roles(guild, s) ==
    {r \in DOMAIN guild.roles : to_lowercase(guild.roles[r].name) = to_lowercase(s)}

\* main.rs:337-348: the two length tests before the match; both are made
\* on possible_members
TooManyMatches(guild, s) ==
    IF Cardinality(possible_members(guild, s)) > 1
    THEN "AmbiguousMember"
    ELSE IF Cardinality(possible_members(guild, s)) > 1
         THEN "AmbiguousRole"
         ELSE "none"

\* main.rs:312-374  Expr::StringLiteral
walk_StringLiteral(guild, mention_everyone, order, s) ==
    IF s = s_everyone \/ s = s_here
    THEN walk_Reserved(guild, mention_everyone, s)
    ELSE IF TooManyMatches(guild, s) # "none"
    THEN Err(TooManyMatches(guild, s), s)
    ELSE IF possible_members(guild, s) # {} /\ possible_roles(guild, s) # {}
    THEN Err("AmbiguousBoth", s)
    ELSE IF possible_members(guild, s) # {}
    THEN walk_UserID(CHOOSE u \in possible_members(guild, s) : TRUE)
    ELSE IF possible_roles(guild, s) # {}
    THEN LET role_id == First(order, possible_roles(guild, s)) IN
         IF ~can_mention_role(mention_everyone, guild.roles[role_id])
         THEN Err("Unmentionable", guild.roles[role_id].name)
         ELSE walk_RoleID(guild, mention_everyone, role_id)
    ELSE Err("UnresolvedName", s)

\* main.rs:242-376
RECURSIVE walk_and_reduce_ast(_, _, _, _)
walk_and_reduce_ast(guild, mention_everyone, order, node) ==
    LET walk(n) == walk_and_reduce_ast(guild, mention_everyone, order, n)
        kind == node[1]
    IN
    CASE kind = "Difference" ->
            LET l == walk(node[2]) IN
            IF ~l.ok THEN l
            ELSE LET r == walk(node[3]) IN
                 IF ~r.ok THEN r ELSE Ok(l.set \ r.set)
      [] kind = "Intersection" ->
            LET l == walk(node[2]) IN
            IF ~l.ok THEN l
            ELSE LET r == walk(node[3]) IN
                 IF ~r.ok THEN r ELSE Ok(l.set \cap r.set)
      [] kind = "Union" ->
            LET l == walk(node[2]) IN
            IF ~l.ok THEN l
            ELSE LET r == walk(node[3]) IN
                 IF ~r.ok THEN r ELSE Ok(l.set \cup r.set)
      [] kind = "UserID" -> walk_UserID(node[2])
      [] kind = "RoleID" -> walk_RoleID(guild, mention_everyone, node[2])
      [] kind = "UnknownID" -> walk_UnknownID(guild, mention_everyone, node[2])
      [] kind = "StringLiteral" ->
            walk_StringLiteral(guild, mention_everyone, order, node[2])

(***************************************************************************)
(* reduce_ast_chunks: Iterator::reduce with Union, None for no chunk.      *)
(***************************************************************************)
None == <<"None">>

RECURSIVE FoldUnion(_, _)
FoldUnion(acc, rest) ==
    IF rest = <<>> THEN acc
    ELSE FoldUnion(<<"Union", acc, Head(rest)>>, Tail(rest))

\* reduce_ast_chunks as a fold from a seed, which is never None
reduce_ast_chunks_seeded(chunks) ==
    FoldUnion(<<"StringLiteral", s_here>>, chunks)

reduce_ast_chunks(chunks) ==
    IF chunks = <<>> THEN None ELSE FoldUnion(Head(chunks), Tail(chunks))

(***************************************************************************)
(* The cover of handle_command.  A RoleType key is <<"Everyone">>,         *)
(* <<"Here">> or <<"Id", r>>.                                              *)
(***************************************************************************)
Everyone == <<"Everyone">>
Here == <<"Here">>
Id(r) == <<"Id", r>>

\* main.rs:397-411: Everyone, Here, and one entry per role some member has
roles_and_their_members(guild) ==
    LET held == {r \in DOMAIN guild.roles :
                    \E u \in guild.members : r \in guild.member_roles[u]}
    IN [k \in {Everyone, Here} \cup {Id(r) : r \in held} |->
            IF k = Everyone THEN get_everyone(guild)
            ELSE IF k = Here THEN get_here(guild)
            ELSE {u \in guild.members : k[2] \in guild.member_roles[u]}]

\* Qualifiers with an overlap test in place of the subset test
QualifiersOverlapping(ram, target) == {k \in DOMAIN ram : ram[k] \cap target # {}}

\* main.rs:415-418: the keys whose members are a subset of the target
Qualifiers(ram, target) == {k \in DOMAIN ram : ram[k] \subseteq target}

\* NewQualifiers without the filter: every qualifier is kept
NewQualifiersUnfiltered(ram, quals) == quals

\* main.rs:423-433: drop a key when another qualifier is a superset of it
NewQualifiers(ram, quals) ==
    {k \in quals : ~\E other \in quals : k # other /\ ram[k] \subseteq ram[other]}

\* main.rs:436-440: flattened from `qualifiers`, not from `new_qualifiers`
IncludedMembers(ram, quals) == UNION {ram[k] : k \in quals}

\* main.rs:442
Outliers(target, included_members) == target \ included_members

(***************************************************************************)
(* Rendering of the reply.                                                 *)
(***************************************************************************)
\* the audience size above which the spec (4.5) asks for a confirmation
ConfirmThreshold == 50

\* impl Display for RoleType
RoleTypeFmt(k) ==
    IF k = Everyone THEN "@everyone"
    ELSE IF k = Here THEN "@here"
    ELSE "<@" \o ToString(k[2]) \o ">"

\* main.rs:454: format!("<@{}>", id)
UserFmt(id) == "<@" \o ToString(id) \o ">"

\* The iteration order of a HashMap or HashSet is unspecified; the model
\* lists Everyone, Here, then ids in ascending order.
RECURSIVE Ascending(_)
Ascending(S) ==
    IF S = {} THEN <<>>
    ELSE LET m == CHOOSE x \in S : \A y \in S : x <= y
         IN <<m>> \o Ascending(S \ {m})

KeyOrder(keys) ==
    (IF Everyone \in keys THEN <<Everyone>> ELSE <<>>)
        \o (IF Here \in keys THEN <<Here>> ELSE <<>>)
        \o [i \in 1..Cardinality(keys \ {Everyone, Here}) |->
               Id(Ascending({k[2] : k \in keys \ {Everyone, Here}})[i])]

\* [String]::join(" ")
RECURSIVE Join(_)
Join(tokens) ==
    IF tokens = <<>> THEN ""
    ELSE IF Len(tokens) = 1 THEN tokens[1]
    ELSE tokens[1] \o " " \o Join(Tail(tokens))

RoleTokens(keys) == [i \in 1..Len(KeyOrder(keys)) |-> RoleTypeFmt(KeyOrder(keys)[i])]
UserTokens(ids) == [i \in 1..Cardinality(ids) |-> UserFmt(Ascending(ids)[i])]

\* a msg.reply: what kind of reply it is, the mention tokens it carries and
\* its text; the text of a notice is abbreviated to its kind
Notice(kind, err) ==
    [kind |-> kind, err |-> err, role_tokens |-> <<>>, user_tokens |-> <<>>,
     content |-> kind]

\* main.rs:444-459: format!("{} {}", keys joined, outliers joined)
MentionReply(keys, ids) ==
    [kind |-> "mentions", err |-> NoError,
     role_tokens |-> RoleTokens(keys), user_tokens |-> UserTokens(ids),
     content |-> Join(RoleTokens(keys)) \o " " \o Join(UserTokens(ids))]

(***************************************************************************)
(* The state machine: a `run` message has been received; one of the four   *)
(* ways through handle_command handles it.                                 *)
(***************************************************************************)
\* the guilds a message of the model is sent in, and the messages
Inputs == Guilds \X Messages

Init ==
    /\ \E in \in Inputs : discord_guild = in[1] /\ msg = in[2]
    /\ pc = "received"
    /\ walked = Ok({})
    /\ members_to_ping = {}
    /\ qualifiers = {}
    /\ new_qualifiers = {}
    /\ outliers = {}
    /\ replies = <<>>

ParseFails == \E i \in 1..Len(msg.chunks) : msg.chunks[i] = ParseFailure

\* main.rs:229-233 with EventHandler::message (main.rs:561-575): a chunk
\* does not parse, `?` returns the error and the event handler replies
RunParseError ==
    /\ pc = "received"
    /\ ParseFails
    /\ replies' = Append(replies, Notice("command_error", <<"ParseError", 0>>))
    /\ pc' = "done"
    /\ UNCHANGED <<discord_guild, msg, walked, members_to_ping, qualifiers,
                   new_qualifiers, outliers>>

\* main.rs:229-237: reduce_ast_chunks returns None
RunNoChunks ==
    /\ pc = "received"
    /\ ~ParseFails
    /\ reduce_ast_chunks(msg.chunks) = None
    /\ replies' = Append(replies, Notice("no_queries", NoError))
    /\ pc' = "done"
    /\ UNCHANGED <<discord_guild, msg, walked, members_to_ping, qualifiers,
                   new_qualifiers, outliers>>

\* main.rs:378-388: walk_and_reduce_ast fails
RunWalkError ==
    /\ pc = "received"
    /\ ~ParseFails
    /\ reduce_ast_chunks(msg.chunks) # None
    /\ \E order \in IterationOrders(discord_guild) :
         LET res == walk_and_reduce_ast(discord_guild, msg.mention_everyone, order,
                                        reduce_ast_chunks(msg.chunks))
         IN /\ ~res.ok
            /\ walked' = res
            /\ replies' = Append(replies, Notice("calculation_error", res.err))
    /\ pc' = "done"
    /\ UNCHANGED <<discord_guild, msg, members_to_ping, qualifiers,
                   new_qualifiers, outliers>>

\* main.rs:378-459: the walk succeeds, the cover is computed and sent
RunReply ==
    /\ pc = "received"
    /\ ~ParseFails
    /\ reduce_ast_chunks(msg.chunks) # None
    /\ \E order \in IterationOrders(discord_guild) :
         LET res == walk_and_reduce_ast(discord_guild, msg.mention_everyone, order,
                                        reduce_ast_chunks(msg.chunks))
             ram == roles_and_their_members(discord_guild)
             quals == Qualifiers(ram, res.set)
             new_quals == NewQualifiers(ram, quals)
             out == Outliers(res.set, IncludedMembers(ram, quals))
         IN /\ res.ok
            /\ walked' = res
            /\ members_to_ping' = res.set
            /\ qualifiers' = quals
            /\ new_qualifiers' = new_quals
            /\ outliers' = out
            /\ replies' = Append(replies, MentionReply(new_quals, out))
    /\ pc' = "done"
    /\ UNCHANGED <<discord_guild, msg>>

Next == RunParseError \/ RunNoChunks \/ RunWalkError \/ RunReply

Spec == Init /\ [][Next]_vars

(***************************************************************************)
(* Guilds with one member more, all of them members: enough users for two  *)
(* roles that do not contain one another and a third user outside both.    *)
(***************************************************************************)
CoverUserIds == 1..(MaxUsers + 1)

CoverGuilds ==
    {Guild(CoverUserIds, mr, on,
           [u \in CoverUserIds |-> CHOOSE t \in TagChoices(u) : t # s_al],
           NoCrowd, PlainRoles) :
        mr \in [CoverUserIds -> SUBSET RoleIds],
        on \in {{}, {AuthorId}, CoverUserIds}}

InitCover ==
    /\ \E in \in CoverGuilds \X Messages : discord_guild = in[1] /\ msg = in[2]
    /\ pc = "received"
    /\ walked = Ok({})
    /\ members_to_ping = {}
    /\ qualifiers = {}
    /\ new_qualifiers = {}
    /\ outliers = {}
    /\ replies = <<>>

SpecCover == InitCover /\ [][Next]_vars

(***************************************************************************)
(* Properties.                                                             *)
(***************************************************************************)
Done == pc = "done"
LastReply == replies[Len(replies)]
\* the message was answered with the mention reply
Mentioned == Done /\ replies # <<>> /\ LastReply.kind = "mentions"
\* the one AST of the message, when it has one
Ast == reduce_ast_chunks(msg.chunks)

\* the users a RoleType key stands for in the guild
KeyMembers(k) ==
    IF k = Everyone THEN discord_guild.members
    ELSE IF k = Here THEN discord_guild.members \cap discord_guild.online
    ELSE {u \in discord_guild.members : k[2] \in discord_guild.member_roles[u]}

\* C1: the members of the roles kept in the cover (new_qualifiers),
\* together with the outliers, are exactly the target set members_to_ping.
C1_CoverReconstructsTarget ==
    Mentioned =>
        UNION {KeyMembers(k) : k \in new_qualifiers} \cup outliers = members_to_ping

\* C2: no extraneous user is pinged: every key of the cover has a member set
\* inside the target set, and every outlier is in the target set, so every
\* user the reply names is in the target set.
C2_NoExtraneousUser ==
    Mentioned =>
        /\ \A k \in new_qualifiers : KeyMembers(k) \subseteq members_to_ping
        /\ outliers \subseteq members_to_ping
        /\ UNION {KeyMembers(k) : k \in new_qualifiers} \cup outliers
               \subseteq members_to_ping

\* C2's case: a reply with a role of the guild in the cover and an outlier,
\* while another key of the guild did not qualify
C2_Witness ==
    /\ Mentioned
    /\ \E k \in new_qualifiers : k[1] = "Id"
    /\ outliers # {}
    /\ \E r \in RoleIds : KeyMembers(Id(r)) # {} /\ Id(r) \notin qualifiers

\* C3: when the audience has more than ConfirmThreshold users, no reply
\* with mention tokens is sent before a confirm interaction was resolved
\* affirmatively, which the handler would record as a "confirmed" reply.
C3_ConfirmBeforeMentions ==
    \A i \in DOMAIN replies :
        (replies[i].kind = "mentions"
            /\ Cardinality(members_to_ping) > ConfirmThreshold)
        => \E j \in 1..(i - 1) : replies[j].kind = "confirmed"

\* C4, as claimed: a message with zero chunks gets no reply at all.
C4_NoReplyForZeroChunks ==
    (Done /\ msg.chunks = <<>>) => replies = <<>>

\* C4, amended: a message with zero chunks gets exactly one reply, the
\* notice that it holds no query; nothing is walked and nobody is mentioned.
C4_NoticeForZeroChunks ==
    (Done /\ msg.chunks = <<>>) =>
        /\ Len(replies) = 1
        /\ replies[1].kind = "no_queries"
        /\ replies[1].role_tokens = <<>> /\ replies[1].user_tokens = <<>>
        /\ members_to_ping = {} /\ new_qualifiers = {} /\ outliers = {}

C4_Witness == Done /\ msg.chunks = <<>> /\ Len(replies) = 1

\* C5: for an invoker with the permissions, a successful walk returns a
\* subset of the guild's members, whatever the nodes of the AST.
C5_WalkWithinEveryone ==
    (Mentioned /\ msg.mention_everyone) =>
        walked.set \subseteq discord_guild.members

\* the name of a StringLiteral that is the only chunk, other than the
\* reserved names; {} for any other message
LoneName ==
    IF Len(msg.chunks) = 1 /\ msg.chunks[1][1] = "StringLiteral"
          /\ msg.chunks[1][2] \notin {s_everyone, s_here}
    THEN {msg.chunks[1][2]}
    ELSE {}

\* the roles whose name is s, whatever the case of the letters
RolesNamed(s) ==
    {r \in DOMAIN discord_guild.roles :
        to_lowercase(discord_guild.roles[r].name) = to_lowercase(s)}

\* the members whose tag is s, whatever the case of the letters
MembersTagged(s) ==
    {u \in discord_guild.members : to_lowercase(discord_guild.tag[u]) = to_lowercase(s)}

\* C6: a name that matches more than one role ends in the ambiguous-role
\* error and never evaluates to the members of one of the roles.
C6_AmbiguousRoleName ==
    \A s \in LoneName :
        (Done /\ Cardinality(RolesNamed(s)) > 1) =>
            /\ ~walked.ok
            /\ walked.err = <<"AmbiguousRole", s>>
            /\ ~Mentioned

\* the id of a RoleID that is the only chunk; {} for any other message
LoneRoleID ==
    IF Len(msg.chunks) = 1 /\ msg.chunks[1][1] = "RoleID"
    THEN {msg.chunks[1][2]}
    ELSE {}

\* C7, as claimed: RoleID(r) is evaluated without a permission check for
\* every invoker: the guild id gives every member, an existing role gives
\* its members, and the only error is the unresolved-role error.
C7_RoleIdNeverGated ==
    \A r \in LoneRoleID :
        Done =>
            /\ r = discord_guild.id => walked = Ok(discord_guild.members)
            /\ r \in DOMAIN discord_guild.roles => walked = Ok(KeyMembers(Id(r)))
            /\ ~walked.ok => walked.err[1] = "UnresolvedRole"

\* C7, amended: RoleID(r) for r other than the guild id is evaluated
\* without a permission check: an existing role gives its members, any
\* other id the unresolved-role error.  RoleID(guild id) is evaluated as
\* the literal `everyone`: every member when the invoker holds
\* mention_everyone, the permission-denied error otherwise.
C7_RoleIdGatedForGuildIdOnly ==
    \A r \in LoneRoleID :
        Done =>
            IF r = discord_guild.id
            THEN IF msg.mention_everyone
                 THEN walked = Ok(discord_guild.members)
                 ELSE walked = Err("PermissionDenied", s_everyone)
            ELSE IF r \in DOMAIN discord_guild.roles
                 THEN walked = Ok(KeyMembers(Id(r)))
                 ELSE walked = Err("UnresolvedRole", r)

\* C7's case: the members of a role that is not mentionable, returned to an
\* invoker without mention_everyone
C7_Witness ==
    \E r \in LoneRoleID :
        /\ Mentioned
        /\ r \in DOMAIN discord_guild.roles
        /\ ~discord_guild.roles[r].mentionable
        /\ ~msg.mention_everyone
        /\ walked.set # {}

\* whether the walk of node, with guild.roles iterated in `order`, reaches
\* a literal `everyone` or `here` or an UnknownID equal to the guild id:
\* the right operand is reached only when the left one did not fail
RECURSIVE ReachesReserved(_, _)
ReachesReserved(order, node) ==
    IF node[1] \in {"Union", "Intersection", "Difference"}
    THEN \/ ReachesReserved(order, node[2])
         \/ /\ walk_and_reduce_ast(discord_guild, msg.mention_everyone, order,
                                   node[2]).ok
            /\ ReachesReserved(order, node[3])
    ELSE \/ node[1] = "StringLiteral" /\ node[2] \in {s_everyone, s_here}
         \/ node[1] = "UnknownID" /\ node[2] = ToString(discord_guild.id)

\* the walk of the message's AST ended as `walked` with this order
WalkedIn(order) ==
    /\ Done /\ ~ParseFails /\ Ast # None
    /\ walked = walk_and_reduce_ast(discord_guild, msg.mention_everyone, order, Ast)

\* C8: without mention_everyone, a walk that reaches `everyone`, `here` or
\* an UnknownID equal to the guild id fails with the permission-denied error
\* and no mention reply is sent; a lone `everyone` or `here` that is
\* answered with mentions had the permission and gave the members, or the
\* members that are online.
C8_ReservedNamesGated ==
    /\ \A order \in IterationOrders(discord_guild) :
         (WalkedIn(order) /\ ~msg.mention_everyone /\ ReachesReserved(order, Ast)) =>
             /\ ~walked.ok
             /\ walked.err[1] = "PermissionDenied"
             /\ \A i \in DOMAIN replies : replies[i].kind # "mentions"
             /\ LastReply.kind = "calculation_error"
    /\ (Mentioned /\ Ast = <<"StringLiteral", s_everyone>>) =>
           msg.mention_everyone /\ walked = Ok(discord_guild.members)
    /\ (Mentioned /\ Ast = <<"StringLiteral", s_here>>) =>
           /\ msg.mention_everyone
           /\ walked = Ok(discord_guild.members \cap discord_guild.online)

\* C8's case: the left operand was walked, the right one is `everyone` or
\* `here`, and the invoker lacks the permission
C8_Witness ==
    /\ Done /\ ~ParseFails /\ Ast # None
    /\ ~msg.mention_everyone
    /\ Ast[1] = "Difference"
    /\ Ast[2][1] = "RoleID"
    /\ Ast[3] = <<"StringLiteral", s_here>>
    /\ walked.err = <<"PermissionDenied", s_here>>

\* the role a lone UnknownID or name resolves to, when it resolves to one
\* role and to no member; {} for any other message
SoleRole ==
    IF Len(msg.chunks) # 1 THEN {}
    ELSE IF msg.chunks[1][1] = "UnknownID"
    THEN {r \in DOMAIN discord_guild.roles :
             /\ msg.chunks[1][2] = ToString(r)
             /\ r # discord_guild.id
             /\ r \notin discord_guild.members}
    ELSE IF LoneName # {}
    THEN {r \in RolesNamed(msg.chunks[1][2]) :
             /\ Cardinality(RolesNamed(msg.chunks[1][2])) = 1
             /\ r # discord_guild.id
             /\ MembersTagged(msg.chunks[1][2]) = {}}
    ELSE {}

\* C9: an UnknownID or a name that resolves to one role and no member fails
\* with the Unmentionable error naming the role when the role is not
\* mentionable and the invoker lacks mention_everyone, and otherwise
\* evaluates as RoleID of that role, to the role's members.
C9_UnmentionableRole ==
    \A r \in SoleRole :
        Done =>
            IF ~discord_guild.roles[r].mentionable /\ ~msg.mention_everyone
            THEN /\ walked = Err("Unmentionable", discord_guild.roles[r].name)
                 /\ ~Mentioned
            ELSE walked = Ok(KeyMembers(Id(r)))

\* C9's case: a name that is the name of one role, not mentionable, walked
\* for an invoker without the permission
C9_Witness ==
    \E r \in SoleRole :
        /\ Done
        /\ LoneName # {}
        /\ ~discord_guild.roles[r].mentionable /\ ~msg.mention_everyone
        /\ KeyMembers(Id(r)) # {}
        /\ walked.err[1] = "Unmentionable"

\* the token the spec (4.5) gives a key of the cover
RoleMention(k) ==
    IF k = Everyone THEN "@everyone"
    ELSE IF k = Here THEN "@here"
    ELSE "<@&" \o ToString(k[2]) \o ">"

\* C10: every key Role(id) of the cover is rendered as <@&id>, Everyone as
\* @everyone and Here as @here, so the token of a role is never the token
\* <@id> of the user with the same number.
C10_RoleMentionTokens ==
    Mentioned =>
        /\ Len(LastReply.role_tokens) = Cardinality(new_qualifiers)
        /\ \A i \in DOMAIN LastReply.role_tokens :
              /\ LastReply.role_tokens[i] = RoleMention(KeyOrder(new_qualifiers)[i])
              /\ KeyOrder(new_qualifiers)[i][1] = "Id" =>
                    LastReply.role_tokens[i]
                        # "<@" \o ToString(KeyOrder(new_qualifiers)[i][2]) \o ">"

\* C11: the cover is an antichain under strict inclusion: no key of the
\* cover has a member set that is a strict subset of the member set of
\* another key of the cover.
C11_CoverIsAntichain ==
    Mentioned =>
        \A k, other \in new_qualifiers :
            k # other =>
                ~(/\ KeyMembers(k) \subseteq KeyMembers(other)
                  /\ KeyMembers(k) # KeyMembers(other))

\* C11's case: two keys in the cover, and a qualifier that was dropped
\* because a key of the cover strictly contains it
C11_Witness ==
    /\ Mentioned
    /\ \E k, other \in new_qualifiers :
          /\ k # other
          /\ KeyMembers(k) # {} /\ KeyMembers(other) # {}
    /\ \E q \in qualifiers \ new_qualifiers :
          \E k \in new_qualifiers :
              KeyMembers(q) \subseteq KeyMembers(k) /\ KeyMembers(q) # KeyMembers(k)

\* the qualifiers that no other qualifier strictly contains (spec 4.4)
ReferenceCover ==
    {k \in qualifiers :
        ~\E other \in qualifiers :
            /\ other # k
            /\ KeyMembers(k) \subseteq KeyMembers(other)
            /\ KeyMembers(k) # KeyMembers(other)}

\* C12: the cover is the reference set: a qualifier is dropped only when
\* another qualifier strictly contains it, so qualifiers with equal member
\* sets that nothing strictly contains are all kept.
C12_CoverIsReference ==
    Mentioned =>
        /\ qualifiers = {k \in {Everyone, Here} \cup {Id(r) : r \in RoleIds} :
                            /\ k[1] = "Id" => KeyMembers(k) # {}
                            /\ KeyMembers(k) \subseteq members_to_ping}
        /\ new_qualifiers = ReferenceCover

====
